---- MODULE Spec2Model ----
(***************************************************************************)
(* Paibot conversation core: the per-user memory store (bot/memory.py),    *)
(* the command reference (bot/command_docs.py), the persona transformer    *)
(* (bot/persona.py) and the orchestrator PaibotChat (bot/chatbot.py).      *)
(*                                                                         *)
(* Text is a sequence of one-character strings; a character outside ASCII  *)
(* is written by its code point ("U+00F3").  A file system is a function   *)
(* from the names of the files that exist to their parsed content.         *)
(***************************************************************************)
EXTENDS Integers, Sequences, FiniteSets, TLC

VARIABLES
  history_window,    \* PaibotChat._history_window
  documents,         \* CommandDocumentation._documents, in insertion order
  files,             \* the memory directory: file name -> JSON payload
  now,               \* the clock read by datetime.now()
  usuario,           \* the identity a command line session was started with
  pc,                \* where each caller of respond stands
  user_id,           \* respond's argument, per caller
  message,           \* respond's message after strip()
  history,           \* respond's local: the loaded history
  mention,           \* respond's local
  command_document,  \* respond's local (None when nothing resolved)
  contents,          \* the prompt handed to generate_content
  calls,             \* generate_content invocations of the current turn
  text,              \* the model's reply as received
  base_response,     \* respond's local
  result,            \* what the last respond call of each caller returned
  san_in, san_out,   \* an identity and its storage key (_sanitize_user_id)
  cmd_in, cmd_out,   \* a message and its resolved command
  environ,           \* os.environ of each session's process
  model,             \* the model argument of each session's PaibotChat(...)
  chat,              \* each session's PaibotChat(...): None before the call
  directories,       \* the directories MemoryManager.__init__ has made
  memory_call,       \* the last direct call of the memory store
  refreshing,        \* where the call of CommandDocumentation.refresh stands
  lookup,            \* the last lookup of the documentation and its answer
  persona_call       \* the last direct call of the persona

vars == <<history_window, documents, files, now, usuario, pc, user_id, message,
          history, mention, command_document, contents, calls, text,
          base_response, result, san_in, san_out, cmd_in, cmd_out, environ,
          model, chat, directories, memory_call, refreshing, lookup,
          persona_call>>

\* Python's None, as a value comparable with records
None == [none |-> TRUE]

----------------------------------------------------------------------------
(* Python's str operations on text.                                        *)

UpperCase == <<"A", "B", "C", "D", "E", "F", "G", "H", "I", "J", "K", "L", "M", "N",
      "O", "P", "Q", "R", "S", "T", "U", "V", "W", "X", "Y", "Z">>
LowerCase == <<"a", "b", "c", "d", "e", "f", "g", "h", "i", "j", "k", "l", "m", "n",
      "o", "p", "q", "r", "s", "t", "u", "v", "w", "x", "y", "z">>
Digits == {"0", "1", "2", "3", "4", "5", "6", "7", "8", "9"}
AsciiLetters == {UpperCase[i] : i \in DOMAIN UpperCase}
                  \cup {LowerCase[i] : i \in DOMAIN LowerCase}
\* the letters outside ASCII that the fixed sentences of the bot use
AccentedLetters == {"U+00E1", "U+00ED", "U+00F3"}
Whitespace == {" ", "\t", "\n", "\r", "\f"}

Min(S) == CHOOSE x \in S : \A y \in S : x <= y
Max(S) == CHOOSE x \in S : \A y \in S : y <= x

\* str.lower(), one character
LowerChar(c) ==
  IF \E i \in DOMAIN UpperCase : UpperCase[i] = c
    THEN LowerCase[CHOOSE i \in DOMAIN UpperCase : UpperCase[i] = c]
    ELSE c

\* str.lower()
Lower(s) == [i \in 1..Len(s) |-> LowerChar(s[i])]

\* str.strip()
Strip(s) ==
  LET keep == {i \in 1..Len(s) : s[i] \notin Whitespace}
  IN  IF keep = {} THEN << >> ELSE SubSeq(s, Min(keep), Max(keep))

\* str.find(sub, from), 1-based, 0 when absent
Find(s, sub, from) ==
  LET hits == {i \in from..(Len(s) - Len(sub) + 1) :
                 SubSeq(s, i, i + Len(sub) - 1) = sub}
  IN  IF hits = {} THEN 0 ELSE Min(hits)

\* sub in s
Contains(s, sub) == Find(s, sub, 1) # 0

\* str.startswith(prefix)
StartsWith(s, prefix) ==
  Len(prefix) <= Len(s) /\ SubSeq(s, 1, Len(prefix)) = prefix

\* str.split(sep)
RECURSIVE Split(_, _)
Split(s, sep) ==
  LET i == Find(s, sep, 1)
  IN  IF i = 0 THEN <<s>>
      ELSE <<SubSeq(s, 1, i - 1)>>
             \o Split(SubSeq(s, i + Len(sep), Len(s)), sep)

\* sep.join(parts)
RECURSIVE Join(_, _)
Join(parts, sep) ==
  IF parts = << >> THEN << >>
  ELSE IF Len(parts) = 1 THEN parts[1]
  ELSE parts[1] \o sep \o Join(Tail(parts), sep)

\* str.replace(old, new) for a single character old
ReplaceChar(s, old, new) == [i \in 1..Len(s) |-> IF s[i] = old THEN new ELSE s[i]]

\* [x for x in parts if keep(x)] with keep = "is not empty"
RECURSIVE NonEmpty(_)
NonEmpty(parts) ==
  IF parts = << >> THEN << >>
  ELSE IF parts[1] = << >> THEN NonEmpty(Tail(parts))
  ELSE <<parts[1]>> \o NonEmpty(Tail(parts))

\* str(b).lower() of a bool
BoolText(b) == Lower(IF b THEN <<"T", "r", "u", "e">> ELSE <<"F", "a", "l", "s", "e">>)

----------------------------------------------------------------------------
(* bot/memory.py                                                           *)

\* the characters re.sub(r"[^a-zA-Z0-9_.-]", ...) leaves alone
SafeChars == AsciiLetters \cup Digits \cup {"_", ".", "-"}

Anonymous == <<"a", "n", "o", "n", "y", "m", "o", "u", "s">>

\* a bug to tell the claims from: the fallback also replaces an
\* identity that has no safe character
SanitizeFallbackAllUnsafe(id) ==
  IF \A i \in 1..Len(id) : id[i] \notin SafeChars THEN Anonymous
  ELSE [i \in 1..Len(id) |-> IF id[i] \in SafeChars THEN id[i] ELSE "_"]

\* a bug to tell the claims from: unsafe characters are dropped
SanitizeDropUnsafe(id) ==
  LET kept == SelectSeq(id, LAMBDA c : c \in SafeChars)
  IN  IF kept = << >> THEN Anonymous ELSE kept

\* MemoryManager._sanitize_user_id
SanitizeUserId(id) ==
  LET sanitized == [i \in 1..Len(id) |->
                      IF id[i] \in SafeChars THEN id[i] ELSE "_"]
  IN  IF sanitized = << >> THEN Anonymous ELSE sanitized

\* a bug to tell the claims from: one file for every identity
MemoryFileShared(id) == <<"m", "e", "m", "o", "r", "y", ".", "j", "s", "o", "n">>

\* MemoryManager._memory_file: the file's name inside the base directory
MemoryFile(id) == SanitizeUserId(id) \o <<".", "j", "s", "o", "n">>

\* MemoryRecord(role, content, metadata, timestamp)
MemoryRecord(role, content, metadata, timestamp) ==
  [role |-> role, content |-> content, metadata |-> metadata,
   timestamp |-> timestamp]

\* MemoryRecord.to_json: a None metadata is left out
ToJson(record) ==
  IF record.metadata = None
    THEN [role |-> record.role, content |-> record.content,
          timestamp |-> record.timestamp]
    ELSE [role |-> record.role, content |-> record.content,
          metadata |-> record.metadata, timestamp |-> record.timestamp]

\* dict.get(key, default)
Get(item, key, default) == IF key \in DOMAIN item THEN item[key] ELSE default

\* a path as pathlib holds it, the sequence of its parts: the parts of a
\* text between its '/', the empty ones and "." left out
PathParts(segment) ==
  SelectSeq(Split(segment, <<"/">>), LAMBDA part : part \notin {<< >>, <<".">>})

\* path / segment: an absolute segment replaces the path
PathJoin(path, segment) ==
  IF StartsWith(segment, <<"/">>) THEN << <<"/">> >> \o PathParts(segment)
  ELSE path \o PathParts(segment)

\* os.environ.get(name, placeholder).strip() or placeholder
Coordinate(env, name, placeholder) ==
  LET value == Strip(Get(env, name, placeholder))
  IN  IF value = << >> THEN placeholder ELSE value

UnknownOwner == <<"u", "n", "k", "n", "o", "w", "n", "-", "o", "w", "n", "e", "r">>
UnknownRepo == <<"u", "n", "k", "n", "o", "w", "n", "-", "r", "e", "p", "o">>
UnknownBranch == <<"u", "n", "k", "n", "o", "w", "n", "-", "b", "r", "a", "n", "c", "h">>

\* MemoryManager.__init__ with no base_directory: the directory it makes
BaseDirectory(env) ==
  LET repo_owner == Coordinate(env, "GITHUB_REPO_OWNER", UnknownOwner)
      repo_name == Coordinate(env, "GITHUB_REPO_NAME", UnknownRepo)
      branch == Coordinate(env, "GITHUB_BRANCH", UnknownBranch)
  IN  PathJoin(PathJoin(PathJoin(<< <<"m", "e", "m", "o", "r", "y">> >>, repo_owner), repo_name),
               branch)

\* a bug to tell the claims from: a loaded record is stamped with the
\* time of the load
FromJsonRestamped(item, clock) ==
  [role |-> Get(item, "role", "assistant"),
   content |-> Get(item, "content", << >>),
   metadata |-> Get(item, "metadata", None), timestamp |-> clock]

\* the loop of load_history over payload["history"]
FromJson(item, clock) ==
  MemoryRecord(Get(item, "role", "assistant"), Get(item, "content", << >>),
               Get(item, "metadata", None), Get(item, "timestamp", clock))

\* MemoryManager.load_history
LoadHistory(fs, id, clock) ==
  LET path == MemoryFile(id)
  IN  IF path \notin DOMAIN fs THEN << >>
      ELSE LET items == Get(fs[path], "history", << >>)
           IN  [i \in 1..Len(items) |-> FromJson(items[i], clock)]

\* what a file holds when json.load cannot parse it
Unparseable == [unparseable |-> TRUE]

\* load_history, lines 65-70: whether json.load raises on the user's file
LoadFails(fs, id) ==
  MemoryFile(id) \in DOMAIN fs /\ fs[MemoryFile(id)] = Unparseable

\* a bug to tell the claims from: the save adds the records to those the
\* file holds
SaveHistoryMerged(fs, id, records, clock) ==
  LET path == SanitizeUserId(id) \o <<".", "j", "s", "o", "n">>
      old == IF path \in DOMAIN fs THEN fs[path].history ELSE << >>
      payload == [user_id |-> id,
                  history |-> old \o [i \in 1..Len(records) |->
                                        ToJson(records[i])],
                  updated_at |-> clock]
  IN  [p \in DOMAIN fs \cup {path} |-> IF p = path THEN payload ELSE fs[p]]

\* MemoryManager.save_history: the file system after the write
SaveHistory(fs, id, records, clock) ==
  LET payload == [user_id |-> id,
                  history |-> [i \in 1..Len(records) |-> ToJson(records[i])],
                  updated_at |-> clock]
      path == MemoryFile(id)
  IN  [p \in DOMAIN fs \cup {path} |-> IF p = path THEN payload ELSE fs[p]]

----------------------------------------------------------------------------
(* bot/command_docs.py                                                     *)

\* CommandDocumentation._docs_directory
DocsDirectory == <<"c", "o", "m", "m", "a", "n", "d", "s">>

\* the *.md files of the documentation directory: stem and content
DocFiles ==
  { [stem |-> <<"J", "u", "m", "p">>, content |-> <<" ", "S", "a", "l", "t", "a", " ", "a", "l", "t", "o", ".", "\n", "\n",
      "U", "s", "o", ":", " ", "j", "u", "m", "p", " ">>],
    [stem |-> <<"s", "p", "a", "w", "n">>, content |-> <<"C", "r", "e", "a", " ", "u", "n", " ", "o", "b", "j", "e", "t", "o">>] }

\* CommandDocument(name, content, path)
CommandDocument(name, content, path) ==
  [name |-> name, content |-> content, path |-> path]

\* CommandDocument.summary
Summary(document) ==
  LET parts == Split(document.content, <<"\n", "\n">>)
      sections == NonEmpty([i \in 1..Len(parts) |-> Strip(parts[i])])
  IN  IF sections # << >> THEN sections[1] ELSE Strip(document.content)

\* dict[key] = value on a dict kept in insertion order
DictSet(dict, key, value) ==
  IF \E i \in 1..Len(dict) : dict[i].name = key
    THEN [i \in 1..Len(dict) |-> IF dict[i].name = key THEN value ELSE dict[i]]
    ELSE Append(dict, value)

\* CommandDocumentation._load_documents over the files in glob order
RECURSIVE LoadDocuments(_, _)
LoadDocuments(dict, globbed) ==
  IF globbed = << >> THEN dict
  ELSE LET md_file == globbed[1]
           key == Lower(md_file.stem)
           path == DocsDirectory \o <<"/">> \o md_file.stem \o <<".", "m", "d">>
       IN  LoadDocuments(
             DictSet(dict, key, CommandDocument(key, md_file.content, path)),
             Tail(globbed))

\* the orders in which glob("*.md") may list a directory
GlobOrders(directory) ==
  {g \in [1..Cardinality(directory) -> directory] :
     \A i, j \in DOMAIN g : i # j => g[i] # g[j]}

\* CommandDocumentation.available_commands
AvailableCommands(dict) == [i \in 1..Len(dict) |-> dict[i].name]

\* CommandDocumentation.get
DocGet(dict, command_name) ==
  LET key == Lower(command_name)
  IN  IF \E i \in 1..Len(dict) : dict[i].name = key
        THEN dict[CHOOSE i \in 1..Len(dict) : dict[i].name = key]
        ELSE None

\* a bug to tell the claims from: of the documents that match loosely the
\* one with the longest key is returned
FindBestMatchLongest(dict, query) ==
  LET normalized == Lower(query)
      fuzzy == {i \in 1..Len(dict) :
                  \/ Contains(normalized, dict[i].name)
                  \/ Contains(dict[i].name, normalized)}
  IN  IF \E i \in 1..Len(dict) : dict[i].name = normalized
        THEN dict[CHOOSE i \in 1..Len(dict) : dict[i].name = normalized]
      ELSE IF fuzzy # {}
        THEN dict[CHOOSE i \in fuzzy :
                    \A j \in fuzzy : Len(dict[j].name) <= Len(dict[i].name)]
      ELSE None

\* CommandDocumentation.find_best_match
FindBestMatch(dict, query) ==
  LET normalized == Lower(query)
      fuzzy == {i \in 1..Len(dict) :
                  \/ Contains(normalized, dict[i].name)
                  \/ Contains(dict[i].name, normalized)}
  IN  IF \E i \in 1..Len(dict) : dict[i].name = normalized
        THEN dict[CHOOSE i \in 1..Len(dict) : dict[i].name = normalized]
      ELSE IF fuzzy # {} THEN dict[Min(fuzzy)]
      ELSE None

----------------------------------------------------------------------------
(* bot/persona.py                                                          *)

PersonaName == <<"P", "a", "i", "m", "o", "n">>
ReferentialThirdPerson == TRUE
ClosingEmotes == << <<"U+2606">>, <<"U+2728">>, <<"U+266A">>, <<"U+2604", "U+FE0F">> >>
Confused == <<"U+00A1", "P", "a", "i", "m", "o", "n", " ", "e", "s", "t", "U+00E1",
      " ", "u", "n", " ", "p", "o", "c", "o", " ", "c", "o", "n", "f", "u",
      "n", "d", "i", "d", "a", " ", "a", "h", "o", "r", "a", " ", "m", "i",
      "s", "m", "o", "!">>
NoWords == <<"U+00A1", "P", "a", "i", "m", "o", "n", " ", "n", "o", " ", "e", "n",
      "c", "u", "e", "n", "t", "r", "a", " ", "p", "a", "l", "a", "b", "r",
      "a", "s", " ", "p", "a", "r", "a", " ", "e", "s", "t", "o", "!">>
Awareness == <<" ", "P", "a", "i", "m", "o", "n", " ", "r", "e", "c", "u", "e", "r",
      "d", "a", " ", "q", "u", "e", " ", "e", "s", " ", "u", "n", "a", " ",
      "b", "o", "t", " ", "g", "u", "U+00ED", "a", ".">>

\* a bug to tell the claims from: a sentence that already speaks of Paimon
\* is returned as it came
DecorateSentenceOwnUntouched(raw) ==
  LET sentence == Strip(raw)
      lowered == IF Len(sentence) > 1
                   THEN <<LowerChar(sentence[1])>> \o Tail(sentence)
                   ELSE Lower(sentence)
      third == PersonaName \o <<" ", "p", "i", "e", "n", "s", "a", " ", "q", "u", "e", " ">> \o lowered
  IN  IF sentence = << >> THEN sentence
      ELSE IF StartsWith(Lower(sentence), Lower(PersonaName)) THEN sentence
      ELSE IF third[Len(third)] \notin {"!", "?"} THEN third \o <<"!">>
      ELSE third

\* PaimonPersona._decorate_sentence
DecorateSentence(raw) ==
  LET sentence == Strip(raw)
      lowered == IF Len(sentence) > 1
                   THEN <<LowerChar(sentence[1])>> \o Tail(sentence)
                   ELSE Lower(sentence)
      third == IF ReferentialThirdPerson
                  /\ ~StartsWith(Lower(sentence), Lower(PersonaName))
                 THEN PersonaName \o <<" ", "p", "i", "e", "n", "s", "a", " ", "q", "u", "e", " ">> \o lowered
                 ELSE sentence
  IN  IF sentence = << >> THEN sentence
      ELSE IF third[Len(third)] \notin {"!", "?"} THEN third \o <<"!">>
      ELSE third

\* the list decorated of PaimonPersona.stylize, lines 39-42
Decorated(raw) ==
  LET stripped == Strip(raw)
      parts == Split(ReplaceChar(stripped, "\n", " "), <<".">>)
      sentences == NonEmpty([i \in 1..Len(parts) |-> Strip(parts[i])])
      made == [i \in 1..Len(sentences) |-> DecorateSentence(sentences[i])]
  IN  IF made = << >> THEN <<NoWords>> ELSE made

\* PaimonPersona.stylize; context_tags is the set of tags, empty when the
\* caller passes none
Stylize(raw, context_tags) ==
  LET stripped == Strip(raw)
      decorated == Decorated(raw)
      suffix == <<" ">>
                  \o ClosingEmotes[(Len(decorated) % Len(ClosingEmotes)) + 1]
      awareness == IF context_tags # {} /\ "command" \in context_tags
                     THEN << >> ELSE Awareness
  IN  IF stripped = << >> THEN Confused
      ELSE Join(decorated, <<" ">>) \o awareness \o suffix
----------------------------------------------------------------------------
(* bot/chatbot.py                                                          *)

\* COMMAND_PATTERN = (?:!|/)?(?:comando|command|cmd)[:\s]+(?P<name>[\w-]+)
Markers == {"!", "/"}
CommandWords == << <<"c", "o", "m", "a", "n", "d", "o">>, <<"c", "o", "m", "m", "a", "n", "d">>, <<"c", "m", "d">> >>
Separators == {":"} \cup Whitespace
NameChars == AsciiLetters \cup AccentedLetters \cup Digits \cup {"_", "-"}

\* the last index of the longest run of characters of set that starts at j
RunEnd(s, j, set) ==
  LET stops == {k \in j..Len(s) : s[k] \notin set}
  IN  IF stops = {} THEN Len(s) ELSE Min(stops) - 1

\* where the command word of a match that starts at i starts
WordStart(s, i) == IF s[i] \in Markers THEN i + 1 ELSE i

\* the command words (case ignored) found at k
WordsAt(s, k) ==
  {w \in DOMAIN CommandWords :
     /\ k + Len(CommandWords[w]) - 1 <= Len(s)
     /\ Lower(SubSeq(s, k, k + Len(CommandWords[w]) - 1)) = CommandWords[w]}

\* the span of group "name" of the match that starts at i, << >> if none
NameSpan(s, i) ==
  LET k == WordStart(s, i)
      words == WordsAt(s, k)
      a == k + Len(CommandWords[Min(words)])
      sep_end == RunEnd(s, a, Separators)
      name_end == RunEnd(s, sep_end + 1, NameChars)
  IN  IF words = {} THEN << >>
      ELSE IF sep_end < a \/ name_end < sep_end + 1 THEN << >>
      ELSE <<sep_end + 1, name_end>>

\* COMMAND_PATTERN.search(message): the leftmost match, or None
CommandPatternSearch(s) ==
  LET starts == {i \in 1..Len(s) : NameSpan(s, i) # << >>}
      span == NameSpan(s, Min(starts))
  IN  IF starts = {} THEN None ELSE [name |-> SubSeq(s, span[1], span[2])]

\* PaibotChat._mention_aliases, the default
MentionAliases == { <<"p", "a", "i", "b", "o", "t">>, <<"@", "p", "a", "i", "b", "o", "t">>, <<"p", "a", "i", "m", "o", "n">> }

HeardNothing == <<"P", "a", "i", "m", "o", "n", " ", "n", "o", " ", "e", "s", "c", "u",
      "c", "h", "U+00F3", " ", "n", "a", "d", "a", ",", " ", "U+00A1", "i",
      "n", "t", "e", "n", "t", "a", " ", "d", "e", "c", "i", "r", " ", "a",
      "l", "g", "o", " ", "d", "e", " ", "n", "u", "e", "v", "o", "!">>
StillThinking == <<"P", "a", "i", "m", "o", "n", " ", "t", "o", "d", "a", "v", "U+00ED",
      "a", " ", "e", "s", "t", "U+00E1", " ", "p", "e", "n", "s", "a", "n",
      "d", "o", " ", "e", "n", " ", "l", "a", " ", "r", "e", "s", "p", "u",
      "e", "s", "t", "a", ".">>
MentionInstruction ==
  <<"E", "l", " ", "u", "s", "u", "a", "r", "i", "o", " ", "a", "c", "a", "b",
    "a", " ", "d", "e", " ", "m", "e", "n", "c", "i", "o", "n", "a", "r", " ",
    "a", " ", "P", "a", "i", "b", "o", "t", ".", " ", "R", "e", "s", "p", "o",
    "n", "d", "e", " ", "c", "o", "n", " ", "u", "n", " ", "t", "o", "n", "o",
    " ", "a", "l", "e", "g", "r", "e", " ", "i", "n", "s", "p", "i", "r", "a",
    "d", "o", " ", "e", "n", " ", "P", "a", "i", "m", "o", "n", ",", " ", "s",
    "i", "n", " ", "o", "l", "v", "i", "d", "a", "r", " ", "q", "u", "e", " ",
    "e", "r", "e", "s", " ", "u", "n", "a", " ", "b", "o", "t", ".">>

\* PaibotChat._is_mention
IsMention(msg) ==
  LET normalized == Lower(msg)
  IN  \E alias \in MentionAliases : Contains(normalized, alias)

\* a bug to tell the claims from: the containment scan runs first
ResolveScanFirst(dict, msg) ==
  LET match == CommandPatternSearch(msg)
      normalized == Lower(msg)
      names == AvailableCommands(dict)
      found == {i \in 1..Len(names) : Contains(normalized, names[i])}
  IN  IF found # {} THEN DocGet(dict, names[Min(found)])
      ELSE IF match # None THEN FindBestMatch(dict, match.name)
      ELSE None

\* a bug to tell the claims from: a marker whose identifier names nothing
\* falls through to the containment scan
ResolveMarkerFallsBack(dict, msg) ==
  LET match == CommandPatternSearch(msg)
      normalized == Lower(msg)
      names == AvailableCommands(dict)
      found == {i \in 1..Len(names) : Contains(normalized, names[i])}
  IN  IF match # None /\ DocGet(dict, match.name) # None
        THEN DocGet(dict, match.name)
      ELSE IF match # None /\ FindBestMatch(dict, match.name) # None
        THEN FindBestMatch(dict, match.name)
      ELSE IF found # {} THEN DocGet(dict, names[Min(found)])
      ELSE None

\* PaibotChat._resolve_command_query
ResolveCommandQuery(dict, msg) ==
  LET match == CommandPatternSearch(msg)
      document == DocGet(dict, match.name)
      normalized == Lower(msg)
      names == AvailableCommands(dict)
      found == {i \in 1..Len(names) : Contains(normalized, names[i])}
  IN  IF match # None
        THEN IF document # None THEN document
             ELSE FindBestMatch(dict, match.name)
      ELSE IF found # {} THEN DocGet(dict, names[Min(found)])
      ELSE None

\* PaibotChat._format_command_response
FormatCommandResponse(document) ==
  <<"E", "l", " ", "c", "o", "m", "a", "n", "d", "o", " ", "U+0060">> \o document.name \o <<"U+0060", " ", "f", "u", "n", "c", "i", "o", "n", "a", " ", "a", "s",
      "U+00ED", ":", "\n">>
    \o Summary(document)
    \o <<"\n", "\n", "P", "u", "e", "d", "e", "s", " ", "r", "e", "v", "i", "s",
      "a", "r", " ", "e", "l", " ", "a", "r", "c", "h", "i", "v", "o", " ",
      "U+0060">> \o document.path
    \o <<"U+0060", " ", "p", "a", "r", "a", " ", "m", "U+00E1", "s", " ", "e",
      "j", "e", "m", "p", "l", "o", "s", " ", "d", "e", "t", "a", "l", "l",
      "a", "d", "o", "s", ".">>

\* a bug to tell the claims from: the window is cut from the oldest end
RecentHistoryOldest(h, window) ==
  IF Len(h) <= window THEN h ELSE SubSeq(h, 1, window)

\* PaibotChat._recent_history
RecentHistory(h, window) ==
  IF Len(h) <= window THEN h ELSE SubSeq(h, Len(h) - window + 1, Len(h))

\* a bug to tell the claims from: the trim keeps one record too many
TrimHistoryOffByOne(h, window) ==
  LET max_records == window * 2
  IN  IF Len(h) <= max_records + 1 THEN h
      ELSE SubSeq(h, Len(h) - max_records, Len(h))

\* a bug to tell the claims from: the trim keeps an odd number of records
TrimHistoryOdd(h, window) ==
  LET max_records == window * 2 - 1
  IN  IF Len(h) <= max_records THEN h
      ELSE SubSeq(h, Len(h) - max_records + 1, Len(h))

\* PaibotChat._trim_history
TrimHistory(h, window) ==
  LET max_records == window * 2
  IN  IF Len(h) <= max_records THEN h
      ELSE SubSeq(h, Len(h) - max_records + 1, Len(h))

\* the prompt _generate_model_reply builds
Contents(h, msg, is_mention, window) ==
  LET recent == RecentHistory(h, window)
      prior == [i \in 1..Len(recent) |->
                  [role |-> IF recent[i].role = "user" THEN "user" ELSE "model",
                   parts |-> <<recent[i].content>>]]
      hint == IF is_mention
                THEN <<[role |-> "user", parts |-> <<MentionInstruction>>]>>
                ELSE << >>
  IN  prior \o hint \o <<[role |-> "user", parts |-> <<msg>>]>>

\* the end of _generate_model_reply: text.strip() or the fallback
ReplyText(received) ==
  IF Strip(received) = << >> THEN StillThinking ELSE Strip(received)

----------------------------------------------------------------------------
(* The callers of respond and what they may pass.                          *)

MaxWindow == 2    \* history_window is drawn from -1..MaxWindow
MaxClock == 3     \* the clock stops here: at most MaxClock turns are saved

Procs == {"t1", "t2"}

\* the identities of the session, and those of the overlapping callers
UserIds == { <<"a", "/", "b">>, <<"c">> }
RaceUserIds == { <<"a", "/", "b">>, <<"a", "_", "b">>, <<"c">> }

Messages ==
  { <<" ", "\n">>, <<" ", "H", "o", "l", "a", " ">>, <<"P", "a", "i", "m", "o", "n", "?">>, <<"!", "c", "m", "d", " ", "j", "u", "m", "p">>, <<"p", "a", "i", "b", "o", "t", " ", "s", "p", "a", "w", "n", ".">> }

\* what the overlapping callers pass and are answered
RaceMessages == { <<" ", "\n">>, <<" ", "H", "o", "l", "a", " ">>, <<"!", "c", "m", "d", " ", "j", "u", "m", "p">> }
RaceTexts == { <<" ", "Y", "a", ".", " ", "S", "i", " ">> }

\* what generate_content may answer: nothing, and sentences between blanks
\* that are already in the persona's style
ModelTexts == { <<" ", "\n">>, <<" ">> \o Stylize(<<"Y", "a">>, {}) \o <<"\n">> }

\* max(history_window, 1) in PaibotChat.__init__
ClampWindow(w) == IF w >= 1 THEN w ELSE 1

NoResult == [kind |-> "none", value |-> << >>]
Returned(value) == [kind |-> "return", value |-> value]
Raised(error) == [kind |-> "raise", value |-> error]

\* the memory directory before any conversation
NoFiles == [path \in {} |-> None]

TurnVars == <<user_id, message, history, mention, command_document,
              contents, calls, text, base_response, result, pc>>
BuildVars == <<environ, model, chat, directories>>
DocVars == <<refreshing, lookup>>
CallVars == <<DocVars, persona_call>>
PureVars == <<san_in, san_out, cmd_in, cmd_out, memory_call, BuildVars, CallVars>>
ChatVars == <<history_window, documents, files, now, usuario, TurnVars>>

\* history_window's default in PaibotChat.__init__
DefaultWindow == 12

\* one listing of a directory whose documents no message of the session
\* can confuse: the order of loading decides nothing there
OneListing(directory) == {CHOOSE g \in GlobOrders(directory) : TRUE}

\* a model handle passed to PaibotChat(model=...)
Injected == [handle |-> "injected"]

ModelName == <<"g", "e", "m", "i", "n", "i", "-", "p", "r", "o">>

\* a bug to tell the claims from: the credential is asked for before the
\* injected model is looked at
NewChatKeyFirst(env, model_arg) ==
  IF Get(env, "GEMINI_API_KEY", << >>) = << >>
    THEN Raised("EnvironmentError")
    ELSE Returned([memory |-> BaseDirectory(env),
                   model |-> IF model_arg # None THEN model_arg
                             ELSE [model_name |-> ModelName,
                                   api_key |-> env.GEMINI_API_KEY]])

\* PaibotChat.__init__, lines 32 and 51-63: what the call returns or raises
NewChat(env, model_arg) ==
  LET memory == BaseDirectory(env)
  IN  IF model_arg # None
        THEN Returned([memory |-> memory, model |-> model_arg])
      ELSE IF Get(env, "GEMINI_API_KEY", << >>) = << >>
        THEN Raised("EnvironmentError")
      ELSE Returned([memory |-> memory,
                     model |-> [model_name |-> ModelName,
                                api_key |-> env.GEMINI_API_KEY]])

\* an environment that names nothing
NoEnviron == [name \in {} |-> << >>]

\* no direct call of the memory store yet
NoCall == [op |-> "none", user_id |-> << >>, history |-> << >>,
           returned |-> << >>]

\* no direct call of the persona yet
NoStyle == [op |-> "none", text |-> << >>, context_tags |-> {},
            decorated |-> << >>, returned |-> << >>, depth |-> 0]

\* refresh has not been called, and nothing has been looked up; prior is
\* the documentation as the last call of refresh found it
NoRefresh ==
  /\ refreshing = [pc |-> "none", globbed |-> << >>, listing |-> << >>,
                   prior |-> documents, count |-> 0]
  /\ lookup = [op |-> "none", query |-> << >>, returned |-> None,
               refresh |-> refreshing]
  /\ persona_call = NoStyle

\* the attributes PaibotChat.__init__ sets on lines 32-36 and respond's
\* frames: a fresh memory directory, the documentation loaded from one of
\* the listings glob may give, and nobody has called respond yet
NoTurn(windows, listings) ==
  /\ history_window \in {ClampWindow(w) : w \in windows}
  /\ documents \in {LoadDocuments(<< >>, g) : g \in listings}
  /\ files = NoFiles
  /\ now = 0
  /\ pc = [p \in Procs |-> "idle"]
  /\ user_id = [p \in Procs |-> << >>]
  /\ message = [p \in Procs |-> << >>]
  /\ history = [p \in Procs |-> << >>]
  /\ mention = [p \in Procs |-> FALSE]
  /\ command_document = [p \in Procs |-> None]
  /\ contents = [p \in Procs |-> << >>]
  /\ calls = [p \in Procs |-> 0]
  /\ text = [p \in Procs |-> << >>]
  /\ base_response = [p \in Procs |-> << >>]
  /\ result = [p \in Procs |-> NoResult]

\* PaibotChat.__init__ with an injected model in an environment that names
\* nothing
Construct(windows, listings) ==
  /\ environ = [p \in Procs |-> NoEnviron]
  /\ model = [p \in Procs |-> Injected]
  /\ chat = [p \in Procs |-> NewChat(NoEnviron, Injected)]
  /\ directories = {BaseDirectory(NoEnviron)}
  /\ memory_call = NoCall
  /\ NoTurn(windows, listings)
  /\ NoRefresh

Init ==
  /\ Construct(-1..MaxWindow, OneListing(DocFiles))
  /\ usuario = [p \in Procs |-> << >>]
  /\ san_in = << >> /\ san_out = None
  /\ cmd_in = << >> /\ cmd_out = None

\* a new frame of respond for caller p: no local is bound yet
Enter(p, u, msg) ==
  /\ user_id' = [user_id EXCEPT ![p] = u]
  /\ message' = [message EXCEPT ![p] = Strip(msg)]
  /\ contents' = [contents EXCEPT ![p] = << >>]
  /\ calls' = [calls EXCEPT ![p] = 0]
  /\ text' = [text EXCEPT ![p] = << >>]
  /\ base_response' = [base_response EXCEPT ![p] = << >>]

\* a bug to tell the claims from: the empty message is recorded before
\* the check for it
RespondEmptyRecorded(p, u, msg) ==
  /\ pc[p] = "idle"
  /\ Strip(msg) = << >>
  /\ Enter(p, u, msg)
  /\ history' = [history EXCEPT ![p] = << >>]
  /\ mention' = [mention EXCEPT ![p] = FALSE]
  /\ command_document' = [command_document EXCEPT ![p] = None]
  /\ result' = [result EXCEPT ![p] = Returned(HeardNothing)]
  /\ files' = SaveHistory(files, u,
                 Append(LoadHistory(files, u, now),
                        MemoryRecord("user", << >>, None, now)), now)
  /\ UNCHANGED <<pc, now, history_window, documents, usuario, PureVars>>

\* respond, lines 67-69: an empty message returns at once
RespondEmpty(p, u, msg) ==
  /\ pc[p] = "idle"
  /\ Strip(msg) = << >>
  /\ Enter(p, u, msg)
  /\ history' = [history EXCEPT ![p] = << >>]
  /\ mention' = [mention EXCEPT ![p] = FALSE]
  /\ command_document' = [command_document EXCEPT ![p] = None]
  /\ result' = [result EXCEPT ![p] = Returned(HeardNothing)]
  /\ UNCHANGED <<pc, files, now, history_window, documents, usuario, PureVars>>

\* the turns that have loaded and not yet returned
InFlight == {q \in Procs : pc[q] # "idle"}

\* respond, lines 67-73: load the history, classify the message
RespondLoad(p, u, msg) ==
  /\ pc[p] = "idle"
  /\ now + Cardinality(InFlight) < MaxClock
  /\ Strip(msg) # << >>
  /\ ~LoadFails(files, u)
  /\ Enter(p, u, msg)
  /\ history' = [history EXCEPT ![p] = LoadHistory(files, u, now)]
  /\ mention' = [mention EXCEPT ![p] = IsMention(Strip(msg))]
  /\ command_document' =
       [command_document EXCEPT ![p] = ResolveCommandQuery(documents, Strip(msg))]
  /\ result' = [result EXCEPT ![p] = NoResult]
  /\ pc' = [pc EXCEPT ![p] = "loaded"]
  /\ UNCHANGED <<files, now, history_window, documents, usuario, PureVars>>

\* a bug to tell the claims from: the model is asked although a command
\* document answers
RespondCommandAsksModel(p) ==
  /\ pc[p] = "loaded"
  /\ command_document[p] # None
  /\ contents' = [contents EXCEPT ![p] =
                    Contents(history[p], message[p], mention[p], history_window)]
  /\ calls' = [calls EXCEPT ![p] = calls[p] + 1]
  /\ base_response' =
       [base_response EXCEPT ![p] = FormatCommandResponse(command_document[p])]
  /\ pc' = [pc EXCEPT ![p] = "replied"]
  /\ UNCHANGED <<user_id, message, history, mention, command_document,
                 text, result, files, now, history_window, documents,
                 usuario, PureVars>>

\* respond, lines 75-76: the answer comes from the command document
RespondCommand(p) ==
  /\ pc[p] = "loaded"
  /\ command_document[p] # None
  /\ base_response' =
       [base_response EXCEPT ![p] = FormatCommandResponse(command_document[p])]
  /\ pc' = [pc EXCEPT ![p] = "replied"]
  /\ UNCHANGED <<user_id, message, history, mention, command_document,
                 contents, calls, text, result, files, now, history_window,
                 documents, usuario, PureVars>>

\* a bug to tell the claims from: the user's record is saved before the
\* model is asked
GenerateModelReplySavesFirst(p, received) ==
  /\ pc[p] = "loaded"
  /\ command_document[p] = None
  /\ contents' = [contents EXCEPT ![p] =
                    Contents(history[p], message[p], mention[p], history_window)]
  /\ calls' = [calls EXCEPT ![p] = calls[p] + 1]
  /\ text' = [text EXCEPT ![p] = received]
  /\ base_response' = [base_response EXCEPT ![p] = ReplyText(received)]
  /\ files' = SaveHistory(files, user_id[p],
                 TrimHistory(Append(history[p],
                                    MemoryRecord("user", message[p], None, now)),
                             history_window), now)
  /\ pc' = [pc EXCEPT ![p] = "replied"]
  /\ UNCHANGED <<user_id, message, history, mention, command_document,
                 result, now, history_window, documents, usuario, PureVars>>

\* respond, lines 77-78: _generate_model_reply, the model answering received
GenerateModelReply(p, received) ==
  /\ pc[p] = "loaded"
  /\ command_document[p] = None
  /\ contents' = [contents EXCEPT ![p] =
                    Contents(history[p], message[p], mention[p], history_window)]
  /\ calls' = [calls EXCEPT ![p] = calls[p] + 1]
  /\ text' = [text EXCEPT ![p] = received]
  /\ base_response' = [base_response EXCEPT ![p] = ReplyText(received)]
  /\ pc' = [pc EXCEPT ![p] = "replied"]
  /\ UNCHANGED <<user_id, message, history, mention, command_document,
                 result, files, now, history_window, documents, usuario,
                 PureVars>>

\* a bug to tell the claims from: the user record is persisted before the
\* model is asked
ModelFailureRecorded(p) ==
  /\ pc[p] = "loaded"
  /\ command_document[p] = None
  /\ contents' = [contents EXCEPT ![p] =
                    Contents(history[p], message[p], mention[p], history_window)]
  /\ calls' = [calls EXCEPT ![p] = calls[p] + 1]
  /\ result' = [result EXCEPT ![p] = Raised("model")]
  /\ files' = SaveHistory(files, user_id[p],
                 TrimHistory(Append(history[p],
                                    MemoryRecord("user", message[p], None, now)),
                             history_window), now)
  /\ pc' = [pc EXCEPT ![p] = "idle"]
  /\ UNCHANGED <<user_id, message, history, mention, command_document,
                 text, base_response, now, history_window, documents,
                 usuario, PureVars>>

\* respond, lines 77-78: generate_content raises and respond lets it pass
ModelFailure(p) ==
  /\ pc[p] = "loaded"
  /\ command_document[p] = None
  /\ contents' = [contents EXCEPT ![p] =
                    Contents(history[p], message[p], mention[p], history_window)]
  /\ calls' = [calls EXCEPT ![p] = calls[p] + 1]
  /\ result' = [result EXCEPT ![p] = Raised("model")]
  /\ pc' = [pc EXCEPT ![p] = "idle"]
  /\ UNCHANGED <<user_id, message, history, mention, command_document,
                 text, base_response, files, now, history_window, documents,
                 usuario, PureVars>>

\* a bug to tell the claims from: every answer is styled
FinalResponseStyled(base, is_mention) == Stylize(base, {})

\* a bug to tell the claims from: no answer is styled
FinalResponsePlain(base, is_mention) == base

\* a bug to tell the claims from: the answer of a command document is
\* styled with the command tag
FinalResponseTagged(base, is_mention) ==
  IF is_mention
    THEN Stylize(base, IF StartsWith(base, <<"E", "l", " ", "c", "o", "m", "a", "n", "d", "o", " ">>)
                         THEN {"command"} ELSE {})
    ELSE base

\* respond, line 80
FinalResponse(base, is_mention) ==
  IF is_mention THEN Stylize(base, {}) ELSE base

\* a bug to tell the claims from: the assistant record never carries the
\* mention
UpdatedHistoryUntagged(h, msg, final, is_mention, clock) ==
  h \o << MemoryRecord("user", msg, None, clock),
          MemoryRecord("assistant", final,
                       [mention |-> BoolText(FALSE)], clock) >>

\* a bug to tell the claims from: the instruction of a mention is recorded
\* with the turn
UpdatedHistoryWithInstruction(h, msg, final, is_mention, clock) ==
  h \o (IF is_mention
          THEN << MemoryRecord("user", MentionInstruction, None, clock) >>
          ELSE << >>)
    \o << MemoryRecord("user", msg, None, clock),
           MemoryRecord("assistant", final,
                        [mention |-> BoolText(is_mention)], clock) >>

\* respond, lines 82-85
UpdatedHistory(h, msg, final, is_mention, clock) ==
  h \o << MemoryRecord("user", msg, None, clock),
          MemoryRecord("assistant", final,
                       [mention |-> BoolText(is_mention)], clock) >>

\* a bug to tell the claims from: the save appends to what is persisted
\* now instead of overwriting it with what the turn loaded
RespondSaveMerged(p) ==
  /\ pc[p] = "replied"
  /\ LET final_response == FinalResponse(base_response[p], mention[p])
         updated_history ==
           UpdatedHistory(LoadHistory(files, user_id[p], now), message[p],
                          final_response, mention[p], now)
         trimmed_history == TrimHistory(updated_history, history_window)
     IN  /\ files' = SaveHistory(files, user_id[p], trimmed_history, now)
         /\ result' = [result EXCEPT ![p] = Returned(final_response)]
  /\ now' = now + 1
  /\ pc' = [pc EXCEPT ![p] = "idle"]
  /\ UNCHANGED <<user_id, message, history, mention, command_document,
                 contents, calls, text, base_response, history_window,
                 documents, usuario, PureVars>>

\* respond, lines 80-89: style, append, trim, save, return
RespondSave(p) ==
  /\ pc[p] = "replied"
  /\ LET final_response == FinalResponse(base_response[p], mention[p])
         updated_history == UpdatedHistory(history[p], message[p],
                                           final_response, mention[p], now)
         trimmed_history == TrimHistory(updated_history, history_window)
     IN  /\ files' = SaveHistory(files, user_id[p], trimmed_history, now)
         /\ result' = [result EXCEPT ![p] = Returned(final_response)]
  /\ now' = now + 1
  /\ pc' = [pc EXCEPT ![p] = "idle"]
  /\ UNCHANGED <<user_id, message, history, mention, command_document,
                 contents, calls, text, base_response, history_window,
                 documents, usuario, PureVars>>

\* PaibotChat(...) has returned caller p its object
Built(p) == chat[p] # None /\ chat[p].kind = "return"

\* one caller of respond, with what it may pass and be answered
Turn(p, users, msgs, texts) ==
  \/ \E u \in users, msg \in msgs : Built(p) /\ RespondEmpty(p, u, msg)
  \/ \E u \in users, msg \in msgs : Built(p) /\ RespondLoad(p, u, msg)
  \/ Built(p) /\ RespondCommand(p)
  \/ \E received \in texts : Built(p) /\ GenerateModelReply(p, received)
  \/ Built(p) /\ ModelFailure(p)
  \/ Built(p) /\ RespondSave(p)

\* the command line session: one caller, one turn at a time
Next == Turn("t1", UserIds, Messages, ModelTexts)

Spec == Init /\ [][Next]_vars

\* two command line sessions on one memory directory, each started with
\* its own usuario (scripts/run_paibot.py); their turns may overlap
InitRace ==
  /\ Construct(-1..MaxWindow, OneListing(DocFiles))
  /\ usuario \in [Procs -> RaceUserIds]
  /\ san_in = << >> /\ san_out = None
  /\ cmd_in = << >> /\ cmd_out = None

NextRace == \E p \in Procs : Turn(p, {usuario[p]}, RaceMessages, RaceTexts)

SpecRace == InitRace /\ [][NextRace]_vars

----------------------------------------------------------------------------
(* The storage key of an identity, on every short identity.                *)

MaxIdLen == 3

IdChars == {"a", "Z", "7", "_", ".", "-", "/", " ", "U+00F3"}

\* the texts over chars of length n, and of length at most n
RECURSIVE TextsOfLen(_, _)
TextsOfLen(chars, n) ==
  IF n = 0 THEN {<< >>}
  ELSE {Append(t, c) : t \in TextsOfLen(chars, n - 1), c \in chars}
TextsUpTo(chars, n) == UNION {TextsOfLen(chars, k) : k \in 0..n}

InitSanitize ==
  /\ Construct({DefaultWindow}, OneListing(DocFiles))
  /\ usuario = [p \in Procs |-> << >>]
  /\ san_in \in TextsUpTo(IdChars, MaxIdLen) /\ san_out = None
  /\ cmd_in = << >> /\ cmd_out = None

\* MemoryManager._memory_file(san_in)
Sanitize ==
  /\ san_out = None
  /\ san_out' = [sanitized |-> SanitizeUserId(san_in),
                  path |-> MemoryFile(san_in)]
  /\ UNCHANGED <<san_in, cmd_in, cmd_out, memory_call, BuildVars, CallVars,
                 ChatVars>>

SpecSanitize == InitSanitize /\ [][Sanitize]_vars

----------------------------------------------------------------------------
(* The command a message resolves to, on every message made of a few       *)
(* pieces, whatever the order the documentation was loaded in.             *)

MaxPieces == 4

Pieces == { <<"!", "c", "m", "d", " ">>, <<"c", "o", "m", "a", "n", "D", "o", ":">>, <<"c", "m", "d">>, <<"j", "u", "m", "p">>, <<"S", "p", "a", "w", "n", " ">>, <<"s">>,
            <<" ">> }

\* the documentation directory of this deployment
CommandDocFiles ==
  DocFiles \cup { [stem |-> <<"s", "p">>, content |-> <<"\n", "\n">>] }

RECURSIVE Concat(_)
Concat(parts) == IF parts = << >> THEN << >> ELSE parts[1] \o Concat(Tail(parts))

PieceMessages ==
  {Concat(parts) : parts \in UNION {[1..n -> Pieces] : n \in 0..MaxPieces}}

InitCommand ==
  /\ Construct({DefaultWindow}, GlobOrders(CommandDocFiles))
  /\ usuario = [p \in Procs |-> << >>]
  /\ san_in = << >> /\ san_out = None
  /\ cmd_in \in PieceMessages /\ cmd_out = None

\* PaibotChat._resolve_command_query(cmd_in), and
\* CommandDocumentation.find_best_match(cmd_in) on the same documentation
Resolve ==
  /\ cmd_out = None
  /\ cmd_out' = [document |-> ResolveCommandQuery(documents, cmd_in),
                  best |-> FindBestMatch(documents, cmd_in)]
  /\ UNCHANGED <<san_in, san_out, cmd_in, memory_call, BuildVars, CallVars,
                 ChatVars>>

SpecCommand == InitCommand /\ [][Resolve]_vars


----------------------------------------------------------------------------
(* PaibotChat(...) in the environment of a deployment.                     *)

\* os.environ with the names that are given a value; each argument is the
\* set of the value given, empty when the name is not set
Environment(owner, repo, branch, key) ==
  LET given == [GITHUB_REPO_OWNER |-> owner, GITHUB_REPO_NAME |-> repo,
                GITHUB_BRANCH |-> branch, GEMINI_API_KEY |-> key]
  IN  [name \in {n \in DOMAIN given : given[n] # {}} |->
         CHOOSE value \in given[name] : TRUE]

\* PaibotChat(model=model[p]) in the environment of session p
ConstructChat(p) ==
  /\ chat[p] = None
  /\ chat' = [chat EXCEPT ![p] = NewChat(environ[p], model[p])]
  /\ directories' = directories \cup {BaseDirectory(environ[p])}
  /\ UNCHANGED <<environ, model, memory_call, san_in, san_out, cmd_in,
                 cmd_out, CallVars, ChatVars>>

\* what the environment may give the credential and the owner
KeyValues == { {}, { << >> }, { <<" ">> }, { <<"k">> } }
KeyOwnerValues == { {}, { <<"a">> }, { <<" ">> } }

\* one session is about to build its PaibotChat; the other never does
InitConstruct ==
  /\ environ \in [Procs -> {Environment(o, {}, {}, k) :
                               o \in KeyOwnerValues, k \in KeyValues}]
  /\ environ["t2"] = NoEnviron
  /\ model \in [Procs -> {None, Injected}]
  /\ model["t2"] = None
  /\ chat = [p \in Procs |-> None]
  /\ directories = {}
  /\ memory_call = NoCall
  /\ NoTurn({1}, OneListing(DocFiles))
  /\ NoRefresh
  /\ usuario = [p \in Procs |-> << >>]
  /\ san_in = << >> /\ san_out = None
  /\ cmd_in = << >> /\ cmd_out = None

NextConstruct ==
  \/ ConstructChat("t1")
  \/ Turn("t1", { <<"c">> }, RaceMessages, RaceTexts)

SpecConstruct == InitConstruct /\ [][NextConstruct]_vars

----------------------------------------------------------------------------
(* Two deployments build their memory stores from their coordinates.       *)

\* what the environment may give the three coordinates
OwnerValues == { {}, { << >> }, { <<" ", "a">> }, { <<"a">> }, { <<"a", "/", "b">> },
                 { UnknownOwner } }
RepoValues == { {}, { <<"c">> }, { <<"b", "/", "c">> } }
BranchValues == { {}, { <<"m", "a", "i", "n">> }, { <<"m", "a", "i", "n", "\n">> } }

InitDeploy ==
  /\ environ \in [Procs -> {Environment(o, r, b, {}) :
                               o \in OwnerValues, r \in RepoValues,
                               b \in BranchValues}]
  /\ model = [p \in Procs |-> Injected]
  /\ chat = [p \in Procs |-> None]
  /\ directories = {}
  /\ memory_call = NoCall
  /\ NoTurn({DefaultWindow}, OneListing(DocFiles))
  /\ NoRefresh
  /\ usuario = [p \in Procs |-> << >>]
  /\ san_in = << >> /\ san_out = None
  /\ cmd_in = << >> /\ cmd_out = None

NextDeploy == \E p \in Procs : ConstructChat(p)

SpecDeploy == InitDeploy /\ [][NextDeploy]_vars

----------------------------------------------------------------------------
(* The memory store called directly: save_history and load_history on any  *)
(* identity, with any short list of records.                               *)

MemoryUserIds == { <<"a", "/", "b">>, <<"c">> }

\* records as a caller may build them: with no metadata, with the mention
\* metadata, with an empty metadata and a role of the caller's own
MemoryRecords ==
  { MemoryRecord("user", <<"H", "o", "l", "a">>, None, 0),
    MemoryRecord("assistant", <<"Y", "a">>, [mention |-> <<"t", "r", "u", "e">>], 1),
    MemoryRecord("system", << >>, [name \in {} |-> << >>], 0) }

MaxRecords == 2

MemoryHistories == UNION {[1..n -> MemoryRecords] : n \in 0..MaxRecords}

\* MemoryManager.save_history(id, records)
SaveCall(id, records) ==
  /\ now < MaxClock
  /\ files' = SaveHistory(files, id, records, now)
  /\ now' = now + 1
  /\ memory_call' = [op |-> "save", user_id |-> id, history |-> records,
                      returned |-> << >>]
  /\ UNCHANGED <<history_window, documents, usuario, TurnVars, BuildVars,
                 san_in, san_out, cmd_in, cmd_out, CallVars>>

\* a bug to tell the claims from: a load of an identity that has no file
\* makes the file
LoadCallCreates(id) ==
  /\ memory_call' = [op |-> "load", user_id |-> id, history |-> << >>,
                      returned |-> LoadHistory(files, id, now)]
  /\ files' = IF MemoryFile(id) \in DOMAIN files THEN files
               ELSE SaveHistory(files, id, << >>, now)
  /\ UNCHANGED <<now, history_window, documents, usuario, TurnVars,
                 BuildVars, san_in, san_out, cmd_in, cmd_out, CallVars>>

\* MemoryManager.load_history(id)
LoadCall(id) ==
  /\ memory_call' = [op |-> "load", user_id |-> id, history |-> << >>,
                      returned |-> LoadHistory(files, id, now)]
  /\ UNCHANGED <<files, now, history_window, documents, usuario, TurnVars,
                 BuildVars, san_in, san_out, cmd_in, cmd_out, CallVars>>

NextMemory ==
  \/ \E id \in MemoryUserIds, records \in MemoryHistories : SaveCall(id, records)
  \/ \E id \in MemoryUserIds : LoadCall(id)

SpecMemory == Init /\ [][NextMemory]_vars

----------------------------------------------------------------------------
(* refresh of the documentation in one thread while another looks          *)
(* documents up; the directory may have changed since it was loaded.       *)

\* what the documentation directory may hold when refresh is called
RefreshDirectories == { {}, DocFiles, CommandDocFiles }

\* the calls of refresh a behaviour follows
MaxRefreshes == 1

\* the documentation is loaded from any listing of any of the directories
InitRefresh ==
  /\ Construct({DefaultWindow},
               UNION {GlobOrders(d) : d \in RefreshDirectories})
  /\ usuario = [p \in Procs |-> << >>]
  /\ san_in = << >> /\ san_out = None
  /\ cmd_in = << >> /\ cmd_out = None

\* the names looked up
LookupQueries == { <<"J", "u", "m", "p">>, <<"s", "p">>, <<"s", "p", "a", "w", "n">> }

\* a bug to tell the claims from: refresh reloads without clearing
RefreshClearKeeps(globbed) ==
  /\ refreshing.pc # "load"
  /\ refreshing.count < MaxRefreshes
  /\ refreshing' = [pc |-> "load", globbed |-> globbed, listing |-> globbed,
                    prior |-> documents, count |-> refreshing.count + 1]
  /\ UNCHANGED <<documents, lookup, history_window, files, now, usuario,
                 TurnVars, BuildVars, memory_call, san_in, san_out, cmd_in,
                 cmd_out, persona_call>>

\* CommandDocumentation.refresh, line 40, and the listing glob gives
\* _load_documents on line 33
RefreshClear(globbed) ==
  /\ refreshing.pc # "load"
  /\ refreshing.count < MaxRefreshes
  /\ documents' = << >>
  /\ refreshing' = [pc |-> "load", globbed |-> globbed, listing |-> globbed,
                    prior |-> documents, count |-> refreshing.count + 1]
  /\ UNCHANGED <<lookup, history_window, files, now, usuario, TurnVars,
                 BuildVars, memory_call, san_in, san_out, cmd_in, cmd_out,
                 persona_call>>

\* one round of the loop of _load_documents, lines 33-36
RefreshLoad ==
  /\ refreshing.pc = "load"
  /\ refreshing.globbed # << >>
  /\ documents' = LoadDocuments(documents, <<Head(refreshing.globbed)>>)
  /\ refreshing' = [refreshing EXCEPT !.globbed = Tail(@)]
  /\ UNCHANGED <<lookup, history_window, files, now, usuario, TurnVars,
                 BuildVars, memory_call, san_in, san_out, cmd_in, cmd_out,
                 persona_call>>

\* the loop is over and refresh returns
RefreshReturn ==
  /\ refreshing.pc = "load"
  /\ refreshing.globbed = << >>
  /\ refreshing' = [refreshing EXCEPT !.pc = "done"]
  /\ UNCHANGED <<documents, lookup, history_window, files, now, usuario,
                 TurnVars, BuildVars, memory_call, san_in, san_out, cmd_in,
                 cmd_out, persona_call>>

\* what a lookup answers on a set of documents
Answer(op, dict, query) ==
  CASE op = "get" -> DocGet(dict, query)
    [] op = "find_best_match" -> FindBestMatch(dict, query)
    [] op = "available_commands" -> [keys |-> AvailableCommands(dict)]

\* a lookup by the other thread, wherever refresh stands
Lookup(op, query) ==
  /\ lookup' = [op |-> op, query |-> query,
                returned |-> Answer(op, documents, query),
                refresh |-> refreshing]
  /\ UNCHANGED <<documents, refreshing, history_window, files, now, usuario,
                 TurnVars, BuildVars, memory_call, san_in, san_out, cmd_in,
                 cmd_out, persona_call>>

\* CommandDocumentation.get(query)
GetCall(query) == Lookup("get", query)

\* CommandDocumentation.find_best_match(query)
FindBestMatchCall(query) == Lookup("find_best_match", query)

\* the scan of CommandDocumentation.available_commands()
AvailableCommandsCall == Lookup("available_commands", << >>)

NextRefresh ==
  \/ \E d \in RefreshDirectories : \E g \in GlobOrders(d) : RefreshClear(g)
  \/ RefreshLoad
  \/ RefreshReturn
  \/ \E q \in LookupQueries : GetCall(q)
  \/ \E q \in LookupQueries : FindBestMatchCall(q)
  \/ AvailableCommandsCall

SpecRefresh == InitRefresh /\ [][NextRefresh]_vars

----------------------------------------------------------------------------
(* The persona called directly: stylize on any short text, and on what     *)
(* stylize itself returned.                                                *)

MaxStylePieces == 3

StylePieces == { <<"Y", "a">>, <<".">>, <<" ">>, <<"!">>, <<"?">>, <<"p", "a", "i", "m", "o", "n">>, <<"\n">>,
                 <<"U+00A1">> }

StyleTexts ==
  {Concat(parts) :
     parts \in UNION {[1..n -> StylePieces] : n \in 0..MaxStylePieces}}

\* the tags a caller may pass
StyleTags == { {}, {"command"} }

\* how many times a text is styled over
MaxStylings == 2

\* PaimonPersona().stylize(raw, context_tags)
StylizeCall(raw, context_tags, depth) ==
  /\ persona_call' = [op |-> "stylize", text |-> raw,
                       context_tags |-> context_tags,
                       decorated |-> Decorated(raw),
                       returned |-> Stylize(raw, context_tags),
                       depth |-> depth]
  /\ UNCHANGED <<ChatVars, BuildVars, DocVars, memory_call, san_in, san_out,
                 cmd_in, cmd_out>>

\* stylize on a text of the caller's
StylizeText(raw, context_tags) ==
  /\ persona_call.op = "none"
  /\ StylizeCall(raw, context_tags, 1)

\* stylize on what the last call of stylize returned
StylizeAgain(context_tags) ==
  /\ persona_call.op = "stylize"
  /\ persona_call.depth < MaxStylings
  /\ StylizeCall(persona_call.returned, context_tags,
                 persona_call.depth + 1)

NextPersona ==
  \/ \E raw \in StyleTexts, tags \in StyleTags : StylizeText(raw, tags)
  \/ \E tags \in StyleTags : StylizeAgain(tags)

SpecPersona == Init /\ [][NextPersona]_vars

----------------------------------------------------------------------------
(* Turns on messages that carry a command marker, whatever the order the   *)
(* documentation was loaded in.                                            *)

MarkerMessages == { <<" ", "\n">>, <<"!", "c", "m", "d", " ", "c", "m", "d", " ", "j", "u", "m", "p">>, <<"/", "C", "o", "m", "m", "a", "n", "d", ":", " ", "x", "-", "1", " ",
      "S", "p", "a", "w", "n">>,
                    <<"c", "m", "d", " ", "j", "u", "m", "p">>, <<"!", "c", "m", "d", " ", "s">>, <<"u", "n", " ", "j", "u", "m", "p">> }

InitMarker ==
  /\ Construct({1}, GlobOrders(CommandDocFiles))
  /\ usuario = [p \in Procs |-> << >>]
  /\ san_in = << >> /\ san_out = None
  /\ cmd_in = << >> /\ cmd_out = None

NextMarker == Turn("t1", { <<"c">> }, MarkerMessages, RaceTexts)

SpecMarker == InitMarker /\ [][NextMarker]_vars

----------------------------------------------------------------------------
(* A session whose memory directory holds files that cannot be parsed.     *)

\* between two turns something outside the core leaves the file of user u
\* unparseable
Spoil(u) ==
  /\ pc = [p \in Procs |-> "idle"]
  /\ ~LoadFails(files, u)
  /\ files' = [path \in DOMAIN files \cup {MemoryFile(u)} |->
                 IF path = MemoryFile(u) THEN Unparseable ELSE files[path]]
  /\ UNCHANGED <<now, history_window, documents, usuario, TurnVars, PureVars>>

\* a bug to tell the claims from: a file that cannot be parsed is taken for
\* an empty history
RespondLoadRecovers(p, u, msg) ==
  /\ pc[p] = "idle"
  /\ now + Cardinality(InFlight) < MaxClock
  /\ Strip(msg) # << >>
  /\ LoadFails(files, u)
  /\ Enter(p, u, msg)
  /\ history' = [history EXCEPT ![p] = << >>]
  /\ mention' = [mention EXCEPT ![p] = IsMention(Strip(msg))]
  /\ command_document' =
       [command_document EXCEPT ![p] = ResolveCommandQuery(documents, Strip(msg))]
  /\ result' = [result EXCEPT ![p] = NoResult]
  /\ pc' = [pc EXCEPT ![p] = "loaded"]
  /\ UNCHANGED <<files, now, history_window, documents, usuario, PureVars>>

\* respond, lines 67-71: json.load raises in load_history and respond lets
\* it pass
RespondLoadFails(p, u, msg) ==
  /\ pc[p] = "idle"
  /\ Strip(msg) # << >>
  /\ LoadFails(files, u)
  /\ Enter(p, u, msg)
  /\ history' = [history EXCEPT ![p] = << >>]
  /\ mention' = [mention EXCEPT ![p] = FALSE]
  /\ command_document' = [command_document EXCEPT ![p] = None]
  /\ result' = [result EXCEPT ![p] = Raised("JSONDecodeError")]
  /\ UNCHANGED <<pc, files, now, history_window, documents, usuario, PureVars>>

InitCorrupt ==
  /\ Construct({1}, OneListing(DocFiles))
  /\ usuario = [p \in Procs |-> << >>]
  /\ san_in = << >> /\ san_out = None
  /\ cmd_in = << >> /\ cmd_out = None

NextCorrupt ==
  \/ Turn("t1", UserIds, RaceMessages, RaceTexts)
  \/ \E u \in UserIds, msg \in RaceMessages : RespondLoadFails("t1", u, msg)
  \/ \E u \in UserIds : Spoil(u)

SpecCorrupt == InitCorrupt /\ [][NextCorrupt]_vars
----------------------------------------------------------------------------
(* What the claims read off a state.                                       *)

\* the records persisted for identity u, as load_history would return them
Persisted(u) == LoadHistory(files, u, now)

\* caller p's last call went through a whole turn and returned
Completed(p) ==
  pc[p] = "idle" /\ result[p].kind = "return" /\ message[p] # << >>

\* the variables caller p's steps write
Frame(p) == <<pc[p], user_id[p], message[p], history[p], mention[p],
              command_document[p], contents[p], calls[p], text[p],
              base_response[p], result[p]>>

\* the smaller of two numbers
Least(a, b) == IF a <= b THEN a ELSE b

----------------------------------------------------------------------------
(* C1: with history window W, clamped to at least 1, no persisted history  *)
(* ever holds more than 2*W records, whatever was said and answered.       *)
C1_HistoryBounded ==
  /\ history_window >= 1
  /\ \A path \in DOMAIN files :
       Len(files[path].history) <= 2 * history_window

\* a turn that loaded a full history has saved, and the file is still full
C1_Witness ==
  /\ Completed("t1")
  /\ Len(history["t1"]) = 2 * history_window
  /\ Len(Persisted(user_id["t1"])) = 2 * history_window

(* C2: the prompt of a turn that asks the model starts with exactly the    *)
(* min(W, len(history)) most recent records of the loaded history, in      *)
(* stored order, assistant records in the model role and user records in   *)
(* the user role; never more than W prior records.                         *)
C2_PromptWindow ==
  \A p \in Procs :
    calls[p] = 1 =>
      LET n == Least(history_window, Len(history[p]))
          skipped == Len(history[p]) - n
          extra == IF mention[p] THEN 2 ELSE 1
      IN  /\ Len(contents[p]) = n + extra
          /\ n <= history_window
          /\ \A i \in 1..n :
               /\ contents[p][i].parts = <<history[p][skipped + i].content>>
               /\ history[p][skipped + i].role = "assistant"
                    => contents[p][i].role = "model"
               /\ history[p][skipped + i].role = "user"
                    => contents[p][i].role = "user"

\* the model was asked with a history longer than a window of two records
C2_Witness ==
  /\ calls["t1"] = 1
  /\ history_window = 2
  /\ Len(history["t1"]) > history_window
  /\ contents["t1"][1].role = "user"
  /\ contents["t1"][2].role = "model"

(* C3: a call with an empty or whitespace-only message returns the fixed   *)
(* sentence at once: no history is loaded, the model is not asked and no   *)
(* file of any user changes.                                               *)
C3_EmptyMessage ==
  [][\A p \in Procs :
       (Frame(p)' # Frame(p) /\ message'[p] = << >>) =>
         /\ files' = files
         /\ result'[p] = Returned(HeardNothing)
         /\ pc'[p] = "idle"
         /\ history'[p] = << >>
         /\ calls'[p] = 0]_vars

\* an empty message was answered for a user with a persisted history
C3_Witness ==
  /\ pc["t1"] = "idle"
  /\ message["t1"] = << >>
  /\ result["t1"] = Returned(HeardNothing)
  /\ Persisted(user_id["t1"]) # << >>

\* what a turn that loaded h and saved leaves persisted: the most recent
\* 2*W of h followed by the user record and the assistant record
TurnPersisted(f, h, said, answered) ==
  LET kept == Least(2 * history_window, Len(h) + 2)
  IN  /\ Len(f) = kept
      /\ f[kept - 1].role = "user" /\ f[kept - 1].content = said
      /\ f[kept].role = "assistant" /\ f[kept].content = answered
      /\ \A i \in 1..(kept - 2) : f[i] = h[Len(h) - (kept - 2) + i]

(* C4: when two turns of one identity both load the history before either  *)
(* saves, what is persisted once both have returned holds the records of   *)
(* one of the two turns only, on top of the history both loaded.           *)
C4_LostUpdate ==
  \A p, q \in Procs :
    ( /\ p # q
      /\ Completed(p) /\ Completed(q)
      /\ user_id[p] = user_id[q]
      /\ history[p] = history[q] ) =>
    \E x \in {p, q} :
      TurnPersisted(Persisted(user_id[p]), history[p], message[x],
                    result[x].value)

\* both sessions of one identity loaded the same history, said different
\* things and returned
C4_Witness ==
  /\ Completed("t1") /\ Completed("t2")
  /\ user_id["t1"] = user_id["t2"]
  /\ history["t1"] = history["t2"]
  /\ message["t1"] # message["t2"]
  /\ Len(Persisted(user_id["t1"])) = 2

\* the storage key of an identity as the specification words it
SpecKey(u) ==
  [i \in 1..Len(u) |->
     IF u[i] \in AsciiLetters \cup Digits \cup {"_", ".", "-"}
       THEN u[i] ELSE "_"]

\* session p alone decides what is persisted for its identity
OwnTurns(p) ==
  /\ pc[p] # "idle" => Persisted(usuario[p]) = history[p]
  /\ Completed(p) =>
       TurnPersisted(Persisted(usuario[p]), history[p], message[p],
                     result[p].value)
  /\ \A path \in DOMAIN files :
       files[path].user_id = usuario[p] => path = MemoryFile(usuario[p])

(* C5, as claimed: overlapping turns of two distinct identities never      *)
(* touch each other's persisted history.                                   *)
C5_AnyDistinctPair ==
  \A p, q \in Procs :
    (p # q /\ usuario[p] # usuario[q]) => OwnTurns(p)

(* C5, amended: overlapping turns of two identities whose storage keys     *)
(* differ never touch each other's persisted history: each one's file      *)
(* holds its own turns on top of its own prior history, trimmed to 2*W.    *)
C5_DistinctKeys ==
  \A p, q \in Procs :
    (p # q /\ SpecKey(usuario[p]) # SpecKey(usuario[q])) => OwnTurns(p)

\* both sessions are inside a turn, their keys differ and one of them has
\* already persisted a turn
C5_Witness ==
  /\ pc["t1"] = "replied" /\ pc["t2"] = "replied"
  /\ SpecKey(usuario["t1"]) # SpecKey(usuario["t2"])
  /\ history["t1"] # << >>

----------------------------------------------------------------------------
\* the characters the specification calls safe in a storage key
KeyChars == AsciiLetters \cup Digits \cup {"_", ".", "-"}

\* the identity has a character and none of them is safe
AllUnsafe(id) == id # << >> /\ \A i \in 1..Len(id) : id[i] \notin KeyChars

(* C6, as claimed: an identity made only of unsafe characters maps to the  *)
(* fallback "anonymous".                                                   *)
C6_AllUnsafeIsAnonymous ==
  (san_out # None /\ AllUnsafe(san_in)) => san_out.sanitized = Anonymous

(* C6, amended: an identity made only of unsafe characters maps to as many *)
(* '_' as it has characters; only the empty identity maps to "anonymous".  *)
C6_AllUnsafeIsUnderscores ==
  san_out # None =>
    /\ AllUnsafe(san_in) =>
         /\ Len(san_out.sanitized) = Len(san_in)
         /\ \A i \in 1..Len(san_in) : san_out.sanitized[i] = "_"
    /\ san_out.sanitized = Anonymous => san_in \in {<< >>, Anonymous}

\* the key of "///" has been derived
C6_Witness ==
  san_out # None /\ san_in = <<"/", "/", "/">>

(* C7: the storage key of every identity is non-empty and made of safe     *)
(* characters only: unsafe characters become '_', safe ones stay where     *)
(* they are, and the empty identity becomes "anonymous".                   *)
C7_SafeKey ==
  san_out # None =>
    LET key == san_out.sanitized
    IN  /\ Len(key) > 0
        /\ \A i \in 1..Len(key) : key[i] \in KeyChars
        /\ san_in = << >> => key = Anonymous
        /\ san_in # << >> =>
             /\ Len(key) = Len(san_in)
             /\ \A i \in 1..Len(san_in) :
                  key[i] = IF san_in[i] \in KeyChars THEN san_in[i] ELSE "_"
        /\ san_out.path = key \o <<".", "j", "s", "o", "n">>

\* the key of an identity that mixes safe and unsafe characters
C7_Witness ==
  /\ san_out # None
  /\ \E i, j \in 1..Len(san_in) :
       san_in[i] \in KeyChars /\ san_in[j] \notin KeyChars

----------------------------------------------------------------------------
\* the match COMMAND_PATTERN finds in the message names the document d
MatchNames(msg, d) ==
  /\ CommandPatternSearch(msg) # None
  /\ Lower(CommandPatternSearch(msg).name) = d.name

(* C8: when the command marker match of the message (the one the pattern   *)
(* search returns) carries an identifier that names an existing document,  *)
(* that document is the resolved command, even if another known key occurs *)
(* elsewhere in the message, whatever the order of loading.                *)
C8_MarkerFirst ==
  cmd_out # None =>
    \A i \in 1..Len(documents) :
      MatchNames(cmd_in, documents[i]) => cmd_out.document = documents[i]

\* the marker names a document loaded after one whose key the message
\* contains as well
C8_Witness ==
  /\ cmd_out # None
  /\ \E i, j \in 1..Len(documents) :
       /\ j < i
       /\ MatchNames(cmd_in, documents[i])
       /\ Contains(Lower(cmd_in), documents[j].name)
       /\ ~Contains(documents[i].name, documents[j].name)

(* C9: a turn with a non-empty message asks the model exactly once when no *)
(* command document resolves and never when one does; either way the turn  *)
(* that returns has appended and persisted its two records.                *)
C9_ModelOnceOrNever ==
  \A p \in Procs :
    /\ calls[p] <= 1
    /\ (pc[p] = "replied" \/ Completed(p)) =>
         calls[p] = IF command_document[p] = None THEN 1 ELSE 0
    /\ Completed(p) =>
         TurnPersisted(Persisted(user_id[p]), history[p], message[p],
                       result[p].value)

\* a turn answered from a document has returned, after a turn of the same
\* user that the model answered
C9_Witness ==
  /\ Completed("t1")
  /\ command_document["t1"] # None
  /\ calls["t1"] = 0
  /\ history["t1"] # << >>
  /\ history["t1"][Len(history["t1"])].content = StillThinking
  /\ Len(Persisted(user_id["t1"])) = Len(history["t1"]) + 2

(* C10: with no command match and no mention the response is the trimmed   *)
(* model output as it is, or the fixed "still thinking" sentence when that *)
(* output is empty: the persona is not applied.                            *)
C10_PlainReply ==
  \A p \in Procs :
    (Completed(p) /\ command_document[p] = None /\ ~mention[p]) =>
      result[p].value =
        IF Strip(text[p]) = << >> THEN StillThinking ELSE Strip(text[p])

\* a plain message got the model's words back, trimmed
C10_Witness ==
  /\ Completed("t1")
  /\ command_document["t1"] = None /\ ~mention["t1"]
  /\ Strip(text["t1"]) # << >> /\ Strip(text["t1"]) # text["t1"]
  /\ result["t1"].value = Strip(text["t1"])

----------------------------------------------------------------------------
\* text ends with one of the persona's closing emotes
EndsWithEmote(t) ==
  \E i \in 1..Len(ClosingEmotes) :
    /\ Len(t) > Len(ClosingEmotes[i])
    /\ SubSeq(t, Len(t) - Len(ClosingEmotes[i]) + 1, Len(t)) = ClosingEmotes[i]

(* C11: a turn whose message contains a mention alias returns the persona's *)
(* styling of the base response, whether a command document or the model   *)
(* produced the base, and what it returns is never the base response.      *)
C11_MentionStyled ==
  \A p \in Procs :
    /\ pc[p] # "idle" =>
         mention[p] = \E alias \in MentionAliases :
                        Contains(Lower(message[p]), alias)
    /\ (Completed(p) /\ mention[p]) =>
         /\ result[p].value = Stylize(base_response[p], {})
         /\ result[p].value # base_response[p]
         /\ EndsWithEmote(result[p].value)

\* a mention that a command document answered has returned, styled
C11_Witness ==
  /\ Completed("t1")
  /\ mention["t1"]
  /\ command_document["t1"] # None
  /\ base_response["t1"] = FormatCommandResponse(command_document["t1"])
  /\ result["t1"].value # base_response["t1"]

\* the n most recent records of h
LastRecords(h, n) == SubSeq(h, Len(h) - n + 1, Len(h))

(* C12: once a turn with a non-empty message has returned, what is         *)
(* persisted for its user is the last min(2*W, n+2) records of the n       *)
(* loaded records followed by the new user record and the new assistant    *)
(* record: the oldest go first, and a prior record that stays keeps its    *)
(* role, content, metadata, timestamp and place. The first turn of a fresh *)
(* user persists two records, user then assistant.                         *)
C12_PersistedTail ==
  \A p \in Procs :
    Completed(p) =>
      LET n == Len(history[p])
          kept == Least(2 * history_window, n + 2)
          f == Persisted(user_id[p])
          said == f[Len(f) - 1]
          answered == f[Len(f)]
      IN  /\ Len(f) = kept
          /\ f = LastRecords(history[p] \o <<said, answered>>, kept)
          /\ said.role = "user" /\ said.content = message[p]
          /\ answered.role = "assistant"
          /\ answered.content = result[p].value
          /\ n = 0 => Len(f) = 2

\* a turn that loaded four records with a window of two has returned: the
\* two oldest are gone, the two that stay carry their own timestamps
C12_Witness ==
  /\ Completed("t1")
  /\ history_window = 2
  /\ Len(history["t1"]) = 4
  /\ Persisted(user_id["t1"])[1] = history["t1"][3]
  /\ Persisted(user_id["t1"])[2] = history["t1"][4]
  /\ Persisted(user_id["t1"])[2].metadata # None
  /\ Persisted(user_id["t1"])[2].timestamp # Persisted(user_id["t1"])[4].timestamp
  /\ history["t1"][1] # history["t1"][3]

\* the messages a caller may pass, as respond trims them
TrimmedMessages == {Strip(msg) : msg \in Messages}

(* C13: once a turn with a non-empty message has returned, the persisted   *)
(* user record holds the trimmed message and the persisted assistant       *)
(* record holds exactly what respond returned: the styled text for a       *)
(* mention, the base response otherwise. The assistant record's mention    *)
(* metadata is "true" exactly when the message was a mention.              *)
C13_RecordsOfTurn ==
  \A p \in Procs :
    Completed(p) =>
      LET f == Persisted(user_id[p])
          said == f[Len(f) - 1]
          answered == f[Len(f)]
      IN  /\ said.role = "user"
          /\ said.content = message[p]
          /\ said.content \in TrimmedMessages
          /\ said.content[1] \notin Whitespace
          /\ said.content[Len(said.content)] \notin Whitespace
          /\ said.metadata = None
          /\ answered.role = "assistant"
          /\ answered.content = result[p].value
          /\ mention[p] => /\ answered.content # base_response[p]
                           /\ EndsWithEmote(answered.content)
          /\ ~mention[p] => answered.content = base_response[p]
          /\ DOMAIN answered.metadata = {"mention"}
          /\ answered.metadata.mention \in { <<"t", "r", "u", "e">>, <<"f", "a", "l", "s", "e">> }
          /\ (answered.metadata.mention = <<"t", "r", "u", "e">>) <=> mention[p]

\* a mention that no command document answers has returned: the styled
\* model text is what was persisted, tagged as a mention
C13_Witness ==
  /\ Completed("t1")
  /\ mention["t1"]
  /\ command_document["t1"] = None
  /\ Persisted(user_id["t1"])[2].metadata.mention = <<"t", "r", "u", "e">>
  /\ Persisted(user_id["t1"])[2].content # base_response["t1"]
  /\ Persisted(user_id["t1"])[1].content = <<"P", "a", "i", "m", "o", "n", "?">>

----------------------------------------------------------------------------
\* the three coordinates the environment of session p provides, when it
\* provides all three
Coordinates == {"GITHUB_REPO_OWNER", "GITHUB_REPO_NAME", "GITHUB_BRANCH"}
Provided(p) == Coordinates \subseteq DOMAIN environ[p]
Triple(p) == [name \in Coordinates |-> environ[p][name]]

\* where the store of session p keeps the history of identity u
StoreLocation(p, u) == chat[p].value.memory \o <<MemoryFile(u)>>

(* C14, as claimed: two memory stores built from different (owner,         *)
(* repository, branch) triples of environment-provided strings never use   *)
(* the same storage location for any user.                                 *)
C14_DistinctTriples ==
  \A p, q \in Procs :
    ( /\ Built(p) /\ Built(q)
      /\ Provided(p) /\ Provided(q)
      /\ Triple(p) # Triple(q) ) =>
    \A u, v \in UserIds : StoreLocation(p, u) # StoreLocation(q, v)

\* the coordinates as MemoryManager.__init__ reads them are plain names:
\* no blank at either end, no '/', and not the placeholder of a missing one
PlainName(value) ==
  /\ value # << >>
  /\ Strip(value) = value
  /\ ~Contains(value, <<"/">>)
  /\ value \notin {<<".">>, <<".", ".">>}

(* C14, what holds: stores built from different triples of plain names     *)
(* (non-empty, no blank at either end, no '/') keep different directories. *)
C14_PlainTriples ==
  \A p, q \in Procs :
    ( /\ Built(p) /\ Built(q)
      /\ Provided(p) /\ Provided(q)
      /\ \A name \in Coordinates :
           PlainName(environ[p][name]) /\ PlainName(environ[q][name])
      /\ Triple(p) # Triple(q) ) =>
    chat[p].value.memory # chat[q].value.memory

\* two stores were built from two different triples of plain names
C14_Witness ==
  /\ Built("t1") /\ Built("t2")
  /\ Provided("t1") /\ Provided("t2")
  /\ \A name \in Coordinates :
       PlainName(environ["t1"][name]) /\ PlainName(environ["t2"][name])
  /\ Triple("t1") # Triple("t2")

----------------------------------------------------------------------------
\* the environment gives no credential, or an empty one
NoCredential(env) ==
  "GEMINI_API_KEY" \notin DOMAIN env \/ env["GEMINI_API_KEY"] = << >>

(* C15: PaibotChat(...) raises the configuration error exactly when no     *)
(* model is injected and the credential is absent or empty; with an        *)
(* injected model it returns whatever the credential is, holding that      *)
(* model; and no turn ever raises the configuration error: a turn runs     *)
(* only on an object the constructor returned.                             *)
C15_FailFast ==
  \A p \in Procs :
    /\ chat[p] # None =>
         /\ (chat[p].kind = "raise")
               <=> (model[p] = None /\ NoCredential(environ[p]))
         /\ chat[p].kind = "raise" => chat[p].value = "EnvironmentError"
         /\ chat[p].kind # "raise" => chat[p].kind = "return"
         /\ model[p] # None => chat[p].value.model = model[p]
    /\ result[p].kind = "raise" => result[p].value # "EnvironmentError"
    /\ (pc[p] # "idle" \/ result[p].kind # "none") => Built(p)

\* the constructor has raised: no model was injected and the credential
\* the environment gives is empty
C15_Witness ==
  /\ chat["t1"] # None
  /\ chat["t1"].kind = "raise"
  /\ model["t1"] = None
  /\ "GEMINI_API_KEY" \in DOMAIN environ["t1"]

----------------------------------------------------------------------------
(* C16: when the model call of a turn fails, respond raises that failure   *)
(* and saves nothing: no file changes, and what is persisted for the user  *)
(* is the history the turn loaded, without a record of the failed turn.    *)
C16_FailedTurnSavesNothing ==
  [][\A p \in Procs :
       (pc[p] = "loaded" /\ pc'[p] = "idle" /\ result'[p].kind # "return") =>
         /\ result'[p] = Raised("model")
         /\ calls'[p] = 1
         /\ files' = files
         /\ LoadHistory(files', user_id'[p], now') = history'[p]
         /\ now' = now]_vars

\* the model failed in a turn of a user who has a persisted history
C16_Witness ==
  /\ pc["t1"] = "idle"
  /\ result["t1"].kind = "raise"
  /\ calls["t1"] = 1
  /\ Len(Persisted(user_id["t1"])) = 2
  /\ Persisted(user_id["t1"]) = history["t1"]

----------------------------------------------------------------------------
(* C17: load_history(user) right after save_history(user, history) returns *)
(* history: the same records in the same order, each with its role,        *)
(* content, metadata and timestamp, whatever the user's file held before.  *)
C17_SaveLoadRoundTrip ==
  [][( /\ memory_call.op = "save"
       /\ memory_call'.op = "load"
       /\ memory_call'.user_id = memory_call.user_id ) =>
     /\ memory_call'.returned = memory_call.history
     /\ Len(memory_call'.returned) = Len(memory_call.history)
     /\ \A i \in 1..Len(memory_call.history) :
          /\ memory_call'.returned[i].role = memory_call.history[i].role
          /\ memory_call'.returned[i].content = memory_call.history[i].content
          /\ memory_call'.returned[i].metadata = memory_call.history[i].metadata
          /\ memory_call'.returned[i].timestamp
               = memory_call.history[i].timestamp]_vars

\* a load has returned a record without metadata followed by one with
\* metadata, from a file that was saved over an earlier history
C17_Witness ==
  /\ memory_call.op = "load"
  /\ Len(memory_call.returned) = 2
  /\ memory_call.returned[1].metadata = None
  /\ memory_call.returned[2].metadata # None
  /\ files[MemoryFile(memory_call.user_id)].updated_at = 2

(* C18: load_history of an identity that has no file returns the empty     *)
(* list, and leaves every file and directory as it was.                    *)
C18_LoadMissing ==
  [][( /\ memory_call'.op = "load"
       /\ MemoryFile(memory_call'.user_id) \notin DOMAIN files ) =>
     /\ memory_call'.returned = << >>
     /\ files' = files
     /\ directories' = directories]_vars

\* an identity with no file was loaded while another identity has one
C18_Witness ==
  /\ memory_call.op = "load"
  /\ MemoryFile(memory_call.user_id) \notin DOMAIN files
  /\ memory_call.returned = << >>
  /\ files # NoFiles

----------------------------------------------------------------------------
(* C19: from an empty store, whatever turns are taken, every persisted     *)
(* history has an even number of records that alternate user, assistant,   *)
(* the first being a user record; trimming keeps it so.                    *)
C19_Alternates ==
  \A path \in DOMAIN files :
    LET h == files[path].history
    IN  /\ Len(h) % 2 = 0
        /\ \A i \in 1..Len(h) :
             h[i].role = IF i % 2 = 1 THEN "user" ELSE "assistant"

\* the turn of a user on a full history has been trimmed and saved, with a
\* window of one, while another user has a history as well
C19_Witness ==
  /\ Completed("t1")
  /\ Len(history["t1"]) = 2 * history_window
  /\ Len(Persisted(user_id["t1"])) = 2 * history_window
  /\ Persisted(user_id["t1"])[1].role = "user"
  /\ Persisted(user_id["t1"])[1] # history["t1"][1]
  /\ history_window = 1
  /\ Cardinality(DOMAIN files) = 2

----------------------------------------------------------------------------
\* the places, in load order, of the documents whose key is the lower-cased
\* query, and of those whose key is inside it or holds it
ExactKeys(q) == {i \in 1..Len(documents) : documents[i].name = Lower(q)}
LooseKeys(q) ==
  {i \in 1..Len(documents) :
     \/ Contains(Lower(q), documents[i].name)
     \/ Contains(documents[i].name, Lower(q))}

(* C20: find_best_match returns the document whose key is the lower-cased  *)
(* query when there is one; otherwise the first document, in the order the *)
(* documents were loaded, whose key is inside the lower-cased query or     *)
(* holds it; and no document only when no key does either.                 *)
C20_FirstMatch ==
  cmd_out # None =>
    /\ ExactKeys(cmd_in) # {} =>
         /\ cmd_out.best # None
         /\ cmd_out.best.name = Lower(cmd_in)
    /\ (ExactKeys(cmd_in) = {} /\ LooseKeys(cmd_in) # {}) =>
         /\ cmd_out.best # None
         /\ \E i \in LooseKeys(cmd_in) :
              /\ cmd_out.best = documents[i]
              /\ \A j \in LooseKeys(cmd_in) : i <= j
    /\ (cmd_out.best = None) <=> (LooseKeys(cmd_in) = {})

\* no key is the query, two keys are inside it, and the document returned
\* is the one loaded first although its key is the shorter
C20_Witness ==
  /\ cmd_out # None
  /\ ExactKeys(cmd_in) = {}
  /\ Cardinality(LooseKeys(cmd_in)) = 2
  /\ cmd_out.best # None
  /\ cmd_out.best.name = <<"s", "p">>
  /\ Contains(Lower(cmd_in), <<"s", "p", "a", "w", "n">>)

----------------------------------------------------------------------------
(* C21: refresh and the lookups that overlap it                            *)

\* the documentation a call of refresh loads from the listing it was given
Reloaded(refresh) == LoadDocuments(<< >>, refresh.listing)

\* C21, as stated: every lookup, one that runs between the steps of refresh
\* included, answers as the complete prior set or as the complete reloaded
\* set would.
C21_EveryLookupComplete ==
  lookup.op # "none" =>
    lookup.returned \in
      { Answer(lookup.op, lookup.refresh.prior, lookup.query),
        Answer(lookup.op, Reloaded(lookup.refresh), lookup.query) }

\* C21, amended: a lookup that runs before refresh is called answers from
\* the complete prior set, and one that runs after refresh has returned
\* answers from the complete reloaded set (a lookup between the steps of
\* refresh may see no document, or some of them).
C21_QuietLookupComplete ==
  lookup.op # "none" =>
    /\ lookup.refresh.pc = "none" =>
         lookup.returned
           = Answer(lookup.op, lookup.refresh.prior, lookup.query)
    /\ lookup.refresh.pc = "done" =>
         lookup.returned
           = Answer(lookup.op, Reloaded(lookup.refresh), lookup.query)

\* a document that the prior set lacked is found after refresh returned
C21_Witness ==
  /\ lookup.op = "get"
  /\ lookup.refresh.pc = "done"
  /\ lookup.returned # None
  /\ Answer("get", lookup.refresh.prior, lookup.query) = None

----------------------------------------------------------------------------
(* C22: in a turn with a non-empty message that produces a response the    *)
(* memory store is read once, when the turn begins and before any model    *)
(* call, and written once, in the step that returns the response: nothing  *)
(* is saved while the command or the model is being asked, the save comes  *)
(* after the model call (if any) has returned, it stores the response as   *)
(* styled, and it touches the file of the turn's user only.                *)
C22_ReadBeforeWriteAfter ==
  [][\A p \in {"t1"} :
       /\ (pc[p] = "idle" /\ pc'[p] = "loaded") =>
            /\ history'[p] = LoadHistory(files, user_id'[p], now)
            /\ calls'[p] = 0
            /\ files' = files
       /\ pc[p] = "loaded" =>
            /\ files' = files
            /\ history'[p] = history[p]
       /\ (pc[p] = "replied" /\ pc'[p] = "idle") =>
            /\ files' # files
            /\ history'[p] = history[p]
            /\ result'[p].kind = "return"
       /\ files' # files =>
            /\ pc[p] = "replied" /\ pc'[p] = "idle"
            /\ calls'[p] = calls[p]
            /\ command_document[p] = None => calls[p] = 1
            /\ LET f == LoadHistory(files', user_id[p], now')
               IN  /\ f[Len(f)].content = result'[p].value
                   /\ f[Len(f)].content
                        = FinalResponse(base_response[p], mention[p])
            /\ \A path \in DOMAIN files' :
                 path # MemoryFile(user_id[p]) =>
                   path \in DOMAIN files /\ files'[path] = files[path]]_vars

\* a turn answered by the model has returned: the model was asked once,
\* what the turn had loaded is one earlier turn, and the file now ends with
\* the response returned
C22_Witness ==
  /\ Completed("t1")
  /\ command_document["t1"] = None
  /\ calls["t1"] = 1
  /\ Len(history["t1"]) = 2
  /\ Len(Persisted(user_id["t1"])) = Least(2 * history_window, 4)
  /\ Persisted(user_id["t1"])[Len(Persisted(user_id["t1"]))].content
       = result["t1"].value

----------------------------------------------------------------------------
\* the last character of a text
LastChar(t) == t[Len(t)]

(* C23: stylize of a text that is not blank, a text stylize returned       *)
(* included, returns a text: the fragments it decorated, each ending in    *)
(* "!" or "?", joined by blanks, then the awareness clause unless the      *)
(* caller tagged a command, then a closing emote.                          *)
C23_FragmentsMarked ==
  (persona_call.op = "stylize" /\ Strip(persona_call.text) # << >>) =>
    LET decorated == persona_call.decorated
        joined == Join(decorated, <<" ">>)
    IN  /\ decorated # << >>
        /\ \A i \in DOMAIN decorated :
             /\ decorated[i] # << >>
             /\ LastChar(decorated[i]) \in {"!", "?"}
        /\ StartsWith(persona_call.returned, joined)
        /\ \E e \in DOMAIN ClosingEmotes :
             persona_call.returned
               = joined
                   \o (IF "command" \in persona_call.context_tags
                         THEN << >> ELSE Awareness)
                   \o <<" ">> \o ClosingEmotes[e]

\* a text stylize had returned is styled over: its first fragment already
\* spoke of Paimon and ended in a letter, its last is the closing emote
C23_Witness ==
  /\ persona_call.op = "stylize"
  /\ persona_call.depth = 2
  /\ Len(persona_call.decorated) = 2
  /\ StartsWith(persona_call.text, PersonaName)
  /\ StartsWith(persona_call.decorated[1], PersonaName \o <<" ", "p", "i", "e", "n", "s", "a", " ", "q", "u", "e", " ", "y", "a">>)
  /\ persona_call.decorated[2]
       = PersonaName \o <<" ", "p", "i", "e", "n", "s", "a", " ", "q", "u", "e", " ">> \o ClosingEmotes[2] \o <<"!">>

----------------------------------------------------------------------------
\* the command marker of caller p's message names nothing: no key is the
\* identifier it captured, lower-cased, is inside it or holds it
MarkerNamesNothing(p) ==
  /\ CommandPatternSearch(message[p]) # None
  /\ \A i \in 1..Len(documents) :
       /\ ~Contains(Lower(CommandPatternSearch(message[p]).name),
                    documents[i].name)
       /\ ~Contains(documents[i].name,
                    Lower(CommandPatternSearch(message[p]).name))

(* C24: when the command marker pattern matches the message and the        *)
(* identifier it captured names no document, exactly or loosely, the turn  *)
(* resolves no command and its answer is the model's, asked once, even if  *)
(* a known key occurs elsewhere in the message; only a message the pattern *)
(* does not match is scanned for the keys.                                 *)
C24_UnknownMarkerAsksModel ==
  \A p \in Procs :
    /\ (pc[p] # "idle" /\ MarkerNamesNothing(p)) => command_document[p] = None
    /\ ((pc[p] = "replied" \/ Completed(p)) /\ MarkerNamesNothing(p)) =>
         /\ calls[p] = 1
         /\ base_response[p] = ReplyText(text[p])
    /\ (pc[p] # "idle" /\ CommandPatternSearch(message[p]) = None
          /\ \E i \in 1..Len(documents) :
               Contains(Lower(message[p]), documents[i].name)) =>
         command_document[p] # None

\* the marker names nothing, the message holds the key jump further on,
\* and the turn has returned what the model said
C24_Witness ==
  /\ Completed("t1")
  /\ MarkerNamesNothing("t1")
  /\ Contains(Lower(message["t1"]), <<"j", "u", "m", "p">>)
  /\ command_document["t1"] = None
  /\ calls["t1"] = 1
  /\ result["t1"].value = ReplyText(text["t1"])

----------------------------------------------------------------------------
\* the prompt entry that carries the instruction of a mention
InstructionEntry == [role |-> "user", parts |-> <<MentionInstruction>>]

(* C25: the instruction of a mention is in the prompt of the turn of that  *)
(* mention only: it comes right after the windowed history and right       *)
(* before the new message, the new message is the last entry of every      *)
(* prompt, in the user role, and the instruction is in no persisted        *)
(* record, so no prompt holds it among the prior records.                  *)
C25_InstructionThisTurnOnly ==
  /\ \A path \in DOMAIN files :
       \A i \in 1..Len(files[path].history) :
         files[path].history[i].content # MentionInstruction
  /\ \A p \in Procs :
       calls[p] = 1 =>
         LET n == Least(history_window, Len(history[p]))
             c == contents[p]
         IN  /\ c[Len(c)] = [role |-> "user", parts |-> <<message[p]>>]
             /\ \A i \in 1..n : c[i] # InstructionEntry
             /\ mention[p] =>
                  /\ Len(c) = n + 2
                  /\ c[n + 1] = InstructionEntry
             /\ ~mention[p] =>
                  /\ Len(c) = n + 1
                  /\ \A i \in 1..Len(c) : c[i] # InstructionEntry

\* the model is asked in the turn after a mention it had answered: the
\* prompt holds the two records of that turn and not the instruction
C25_Witness ==
  /\ calls["t1"] = 1
  /\ ~mention["t1"]
  /\ Len(history["t1"]) = 2
  /\ history["t1"][2].metadata.mention = <<"t", "r", "u", "e">>
  /\ history_window = 2
  /\ Len(contents["t1"]) = 3
  /\ \A i \in 1..Len(contents["t1"]) : contents["t1"][i] # InstructionEntry

----------------------------------------------------------------------------
(* C26: a call of respond with a non-empty message for a user whose file   *)
(* cannot be parsed fails in load_history: the model is not asked, no file *)
(* changes and no turn is opened. No step of the core makes such a file    *)
(* parseable again or removes it, so every later call for that storage key *)
(* fails the same way.                                                     *)
C26_UnparseableStaysAndFails ==
  [][/\ \A path \in DOMAIN files :
          files[path] = Unparseable =>
            path \in DOMAIN files' /\ files'[path] = Unparseable
     /\ \A p \in Procs :
          ( /\ pc[p] = "idle"
            /\ Frame(p)' # Frame(p)
            /\ message'[p] # << >>
            /\ LoadFails(files, user_id'[p]) ) =>
            /\ result'[p].kind = "raise"
            /\ result'[p].value = "JSONDecodeError"
            /\ calls'[p] = 0
            /\ contents'[p] = << >>
            /\ pc'[p] = "idle"
            /\ files' = files
            /\ now' = now]_vars

\* a call has failed on a file that cannot be parsed, while the file of
\* another user holds a turn
C26_Witness ==
  /\ pc["t1"] = "idle"
  /\ result["t1"].kind = "raise"
  /\ result["t1"].value = "JSONDecodeError"
  /\ calls["t1"] = 0
  /\ LoadFails(files, user_id["t1"])
  /\ \E path \in DOMAIN files :
       /\ files[path] # Unparseable
       /\ Len(files[path].history) = 2

----------------------------------------------------------------------------
\* text t ends with the awareness clause and a closing emote
EndsAware(t) ==
  \E i \in 1..Len(ClosingEmotes) :
    LET tail == Awareness \o <<" ">> \o ClosingEmotes[i]
    IN  /\ Len(t) > Len(tail)
        /\ SubSeq(t, Len(t) - Len(tail) + 1, Len(t)) = tail

(* C27: the response to a mention carries the awareness clause, right      *)
(* before the closing emote, also when a command document produced the     *)
(* base response: respond passes the persona no tag.                       *)
C27_MentionKeepsAwareness ==
  \A p \in Procs :
    (Completed(p) /\ mention[p]) =>
      /\ EndsAware(result[p].value)
      /\ command_document[p] # None =>
           /\ base_response[p] = FormatCommandResponse(command_document[p])
           /\ ~EndsAware(base_response[p])

\* a mention that the containment scan resolved to a command document has
\* returned with the awareness clause, and so it was persisted
C27_Witness ==
  /\ Completed("t1")
  /\ mention["t1"]
  /\ command_document["t1"] # None
  /\ command_document["t1"].name = <<"s", "p", "a", "w", "n">>
  /\ EndsAware(result["t1"].value)
  /\ EndsAware(Persisted(user_id["t1"])[Len(Persisted(user_id["t1"]))].content)

====
